---- MODULE Spec2Model ----
(***************************************************************************)
(* auto-structured-output: the schema validator (validators.py), the       *)
(* shared vocabulary (model.py) and the model builder (model_builder.py),  *)
(* as operators over an encoding of JSON documents, and the operations     *)
(* that apply them as actions.                                             *)
(***************************************************************************)
EXTENDS Integers, Sequences, FiniteSets, TLC

VARIABLES
    schema,        \* the schema document handed to validate_schema / build_model
    pc,            \* "start" -> "validated" -> "built"
    vres,          \* outcome of SchemaValidator.validate_schema(schema)
    bres,          \* outcome of ModelBuilder.build_model(schema)
    enum_values,   \* argument of SchemaValidator.validate_enum
    enum_res,      \* its outcome
    constraints,   \* argument of SchemaValidator.validate_array_constraints
    arr_res,       \* its outcome
    gen,           \* the locals of SchemaGenerator.extract_from_prompt
    api_calls,     \* the API calls made: the messages sent and the response
    gen_res,       \* outcome of extract_from_prompt
    ext_res,       \* outcome of StructureExtractor.extract_structure
    file,          \* the file load_from_json is pointed at
    load_res       \* outcome of StructureExtractor.load_from_json

vars == <<schema, pc, vres, bres, enum_values, enum_res, constraints, arr_res,
          gen, api_calls, gen_res, ext_res, file, load_res>>

-----------------------------------------------------------------------------
(* JSON values as json.loads produces them.  Every value is a record whose *)
(* field k names the Python type; a float is kept in tenths.               *)

JStr(s)   == [k |-> "str", s |-> s]
JInt(n)   == [k |-> "int", n |-> n]
JFloat(t) == [k |-> "float", n |-> t]
JBool(b)  == [k |-> "bool", b |-> b]
JNull     == [k |-> "null"]
JList(l)  == [k |-> "list", l |-> l]
JDict(d)  == [k |-> "dict", d |-> d]

EmptyDict == [key \in {} |-> JNull]

\* the dict {key: value}
Frag(key, value) == key :> value

IsDict(v) == v.k = "dict"
IsList(v) == v.k = "list"
IsStr(v)  == v.k = "str"

\* key in d, d[key], d.get(key, default) for a dict value d
Has(v, key) == key \in DOMAIN v.d
Get(v, key) == v.d[key]
GetOr(v, key, default) == IF Has(v, key) THEN Get(v, key) ELSE default

\* Python's == between a JSON value and a str literal
EqStr(v, lit) == IsStr(v) /\ v.s = lit

\* Iteration order of a dict: documents are written with their keys in this
\* order (a Python dict iterates in insertion order).
KeyOrder ==
    << "type", "title", "description", "default", "examples", "format",
       "pattern", "enum", "anyOf", "multipleOf", "maximum", "exclusiveMaximum",
       "minimum", "exclusiveMinimum", "minItems", "maxItems", "items",
       "uniqueItems", "properties", "required", "a", "b", "x" >>

Keys(v) == SelectSeq(KeyOrder, LAMBDA key : key \in DOMAIN v.d)

\* str() of a JSON scalar
Digit(d) == << "0", "1", "2", "3", "4", "5", "6", "7", "8", "9" >>[d + 1]

RECURSIVE NatStr(_)
NatStr(n) == IF n < 10 THEN Digit(n) ELSE NatStr(n \div 10) \o Digit(n % 10)

IntStr(n) == IF n < 0 THEN "-" \o NatStr(-n) ELSE NatStr(n)

PyStr(v) ==
    CASE v.k = "str"   -> v.s
      [] v.k = "int"   -> IntStr(v.n)
      [] v.k = "float" -> (IF v.n < 0 THEN "-" ELSE "")
                            \o NatStr((IF v.n < 0 THEN -v.n ELSE v.n) \div 10)
                            \o "." \o Digit((IF v.n < 0 THEN -v.n ELSE v.n) % 10)
      [] v.k = "bool"  -> IF v.b THEN "True" ELSE "False"
      [] v.k = "null"  -> "None"
      [] OTHER         -> "<" \o v.k \o ">"

\* isinstance(v, int): bool is a subclass of int
IsInstanceInt(v) == v.k \in {"int", "bool"}

\* isinstance(v, (int, float))
IsInstanceNumber(v) == v.k \in {"int", "bool", "float"}

\* the number a Python int/bool/float compares as, in tenths
Tenths(v) ==
    CASE v.k = "int"   -> 10 * v.n
      [] v.k = "bool"  -> IF v.b THEN 10 ELSE 0
      [] v.k = "float" -> v.n

-----------------------------------------------------------------------------
(* Outcomes of a call: a return value or a raised exception with the parts *)
(* of its message.                                                         *)

Ok(value)       == [ok |-> TRUE,  exc |-> "",  msg |-> <<>>, value |-> value]
Raise(exc, msg) == [ok |-> FALSE, exc |-> exc, msg |-> msg,  value |-> JNull]
None            == Ok(JNull)

\* try: r  except ValueError as e: raise ValueError(prefix + str(e))
WrapValueError(prefix, r) ==
    IF ~r.ok /\ r.exc = "ValueError" THEN Raise("ValueError", prefix \o r.msg) ELSE r

\* r; then next  (next runs only when r returned)
Then(r, next) == IF r.ok THEN next ELSE r

-----------------------------------------------------------------------------
(* model.py: the shared vocabulary                                         *)

SupportedTypeValues ==
    << "string", "number", "integer", "boolean", "object", "array", "null",
       "enum", "anyOf" >>

StringFormatValues ==
    << "date-time", "date", "time", "duration", "email", "hostname", "ipv4",
       "ipv6", "uuid" >>

Range(seq) == { seq[i] : i \in DOMAIN seq }

is_supported_type(t) == IsStr(t) /\ t.s \in Range(SupportedTypeValues)

is_supported_format(f) == IsStr(f) /\ f.s \in Range(StringFormatValues)

-----------------------------------------------------------------------------
(* validators.py: SchemaValidator                                          *)

\* index of the first element of l satisfying P, 0 when there is none
FirstIndex(l, P(_)) ==
    LET hits == { i \in DOMAIN l : P(l[i]) }
    IN  IF hits = {} THEN 0 ELSE CHOOSE i \in hits : \A j \in hits : i <= j

validate_type(type_value) ==
    IF IsList(type_value)
    THEN LET i == FirstIndex(type_value.l, LAMBDA t : ~is_supported_type(t))
         IN  IF i # 0
             THEN Raise("ValueError", << "Type not supported: ", PyStr(type_value.l[i]) >>)
             ELSE Ok(JBool(TRUE))
    ELSE IF ~is_supported_type(type_value)
         THEN Raise("ValueError", << "Type not supported: ", PyStr(type_value) >>)
         ELSE Ok(JBool(TRUE))

validate_string_format(format_value) ==
    IF ~is_supported_format(format_value)
    THEN Raise("ValueError", << "String format not supported: ", PyStr(format_value) >>)
    ELSE Ok(JBool(TRUE))

NumberConstraintKeys ==
    { "multipleOf", "maximum", "exclusiveMaximum", "minimum", "exclusiveMinimum" }

ArrayConstraintKeys == { "minItems", "maxItems", "items" }

MetadataFields == { "type", "description", "title", "default", "examples" }

\* validate_number_constraints letting the keys with rules of their own pass
validate_number_constraints_SkipsRuledKeys(c) ==
    LET unknown == SelectSeq(Keys(c), LAMBDA key :
                       /\ key \notin NumberConstraintKeys
                       /\ key \notin MetadataFields
                       /\ key \notin { "enum", "anyOf", "format" })
    IN  IF unknown # <<>>
        THEN Raise("ValueError", << "Number constraint not supported: ", Head(unknown) >>)
        ELSE IF Has(c, "multipleOf") /\ ~IsInstanceNumber(Get(c, "multipleOf"))
        THEN Raise("ValueError", << "multipleOf must be a number" >>)
        ELSE IF Has(c, "multipleOf") /\ Tenths(Get(c, "multipleOf")) <= 0
        THEN Raise("ValueError", << "multipleOf must be a positive number" >>)
        ELSE IF Has(c, "maximum") /\ Has(c, "exclusiveMaximum")
        THEN Raise("ValueError", << "Cannot specify both maximum and exclusiveMaximum" >>)
        ELSE IF Has(c, "minimum") /\ Has(c, "exclusiveMinimum")
        THEN Raise("ValueError", << "Cannot specify both minimum and exclusiveMinimum" >>)
        ELSE Ok(JBool(TRUE))

validate_number_constraints(c) ==
    LET unknown == SelectSeq(Keys(c), LAMBDA key :
                       key \notin NumberConstraintKeys /\ key \notin MetadataFields)
    IN  IF unknown # <<>>
        THEN Raise("ValueError", << "Number constraint not supported: ", Head(unknown) >>)
        ELSE IF Has(c, "multipleOf") /\ ~IsInstanceNumber(Get(c, "multipleOf"))
        THEN Raise("ValueError", << "multipleOf must be a number" >>)
        ELSE IF Has(c, "multipleOf") /\ Tenths(Get(c, "multipleOf")) <= 0
        THEN Raise("ValueError", << "multipleOf must be a positive number" >>)
        ELSE IF Has(c, "maximum") /\ Has(c, "exclusiveMaximum")
        THEN Raise("ValueError", << "Cannot specify both maximum and exclusiveMaximum" >>)
        ELSE IF Has(c, "minimum") /\ Has(c, "exclusiveMinimum")
        THEN Raise("ValueError", << "Cannot specify both minimum and exclusiveMinimum" >>)
        ELSE Ok(JBool(TRUE))

validate_array_constraints(c) ==
    LET unknown == SelectSeq(Keys(c), LAMBDA key :
                       key \notin ArrayConstraintKeys /\ key \notin MetadataFields)
    IN  IF unknown # <<>>
        THEN Raise("ValueError", << "Array constraint not supported: ", Head(unknown) >>)
        ELSE IF Has(c, "minItems") /\ ~IsInstanceInt(Get(c, "minItems"))
        THEN Raise("ValueError", << "minItems must be an integer" >>)
        ELSE IF Has(c, "minItems") /\ Tenths(Get(c, "minItems")) < 0
        THEN Raise("ValueError", << "minItems must be 0 or greater" >>)
        ELSE IF Has(c, "maxItems") /\ ~IsInstanceInt(Get(c, "maxItems"))
        THEN Raise("ValueError", << "maxItems must be an integer" >>)
        ELSE IF Has(c, "maxItems") /\ Tenths(Get(c, "maxItems")) < 0
        THEN Raise("ValueError", << "maxItems must be 0 or greater" >>)
        ELSE IF /\ Has(c, "minItems") /\ Has(c, "maxItems")
                /\ Tenths(Get(c, "minItems")) > Tenths(Get(c, "maxItems"))
        THEN Raise("ValueError", << "minItems must be less than or equal to maxItems" >>)
        ELSE Ok(JBool(TRUE))

validate_required_fields(required, properties) ==
    IF ~IsList(required)
    THEN Raise("ValueError", << "required must be a list" >>)
    ELSE LET i == FirstIndex(required.l, LAMBDA f : ~IsStr(f) \/ ~Has(properties, f.s))
         IN  IF i = 0
             THEN Ok(JBool(TRUE))
             ELSE IF ~IsStr(required.l[i])
             THEN Raise("ValueError",
                        << "Required field name must be a string: ", PyStr(required.l[i]) >>)
             ELSE Raise("ValueError",
                        << "Required field '", required.l[i].s, "' is not defined in properties" >>)

\* validate_enum comparing the values themselves, without str()
validate_enum_RawValues(values) ==
    IF ~IsList(values)
    THEN Raise("ValueError", << "enum must be a list" >>)
    ELSE IF Len(values.l) = 0
    THEN Raise("ValueError", << "enum must have at least one value" >>)
    ELSE IF Len(values.l) # Cardinality(Range(values.l))
    THEN Raise("ValueError", << "enum values contain duplicates" >>)
    ELSE Ok(JBool(TRUE))

validate_enum(values) ==
    IF ~IsList(values)
    THEN Raise("ValueError", << "enum must be a list" >>)
    ELSE IF Len(values.l) = 0
    THEN Raise("ValueError", << "enum must have at least one value" >>)
    ELSE IF Len(values.l) # Cardinality({ PyStr(values.l[i]) : i \in DOMAIN values.l })
    THEN Raise("ValueError", << "enum values contain duplicates" >>)
    ELSE Ok(JBool(TRUE))

RECURSIVE _validate_properties(_)
RECURSIVE ValidateField(_, _)
RECURSIVE ValidateFields(_, _)

\* the checks made on a field that has "type" (validators.py 248-285)
ValidateTyped(field_name, field_info) ==
    LET field_type == Get(field_info, "type")
        typeCheck ==
            WrapValueError(<< "Invalid type for field '", field_name, "': " >>,
                           validate_type(field_type))
        formatCheck ==
            IF EqStr(field_type, "string") /\ Has(field_info, "format")
            THEN WrapValueError(<< "Invalid format for field '", field_name, "': " >>,
                                validate_string_format(Get(field_info, "format")))
            ELSE None
        numberCheck ==
            IF EqStr(field_type, "number") \/ EqStr(field_type, "integer")
            THEN WrapValueError(<< "Invalid constraints for field '", field_name, "': " >>,
                                validate_number_constraints(field_info))
            ELSE None
        itemsCheck ==
            IF Has(field_info, "items")
            THEN LET items == Get(field_info, "items")
                 IN  IF /\ IsDict(items) /\ Has(items, "type")
                        /\ EqStr(Get(items, "type"), "object")
                        /\ Has(items, "properties")
                     THEN _validate_properties(Get(items, "properties"))
                     ELSE None
            ELSE None
        arrayCheck ==
            IF EqStr(field_type, "array")
            THEN Then(WrapValueError(
                          << "Invalid array constraints for field '", field_name, "': " >>,
                          validate_array_constraints(field_info)),
                      itemsCheck)
            ELSE None
        objectCheck ==
            IF EqStr(field_type, "object") /\ Has(field_info, "properties")
            THEN _validate_properties(Get(field_info, "properties"))
            ELSE None
    IN  Then(typeCheck, Then(formatCheck, Then(numberCheck, Then(arrayCheck, objectCheck))))

\* the body of the loop over properties.items() (validators.py 243-297)
ValidateField(field_name, field_info) ==
    IF ~IsDict(field_info)
    THEN Raise("ValueError", << "Field '", field_name, "' definition is invalid" >>)
    ELSE LET typedCheck ==
                 IF Has(field_info, "type") THEN ValidateTyped(field_name, field_info) ELSE None
             enumCheck ==
                 IF Has(field_info, "enum")
                 THEN WrapValueError(<< "Invalid enum for field '", field_name, "': " >>,
                                     validate_enum(Get(field_info, "enum")))
                 ELSE None
             anyOfCheck ==
                 IF Has(field_info, "anyOf") /\ ~IsList(Get(field_info, "anyOf"))
                 THEN Raise("ValueError",
                            << "'anyOf' for field '", field_name, "' must be a list" >>)
                 ELSE None
         IN  Then(typedCheck, Then(enumCheck, anyOfCheck))

ValidateFields(properties, keys) ==
    IF keys = <<>>
    THEN None
    ELSE Then(ValidateField(Head(keys), Get(properties, Head(keys))),
              ValidateFields(properties, Tail(keys)))

\* _validate_properties refusing an empty mapping
_validate_properties_NonEmpty(properties) ==
    IF ~IsDict(properties)
    THEN Raise("ValueError", << "properties must be a dictionary" >>)
    ELSE IF DOMAIN properties.d = {}
    THEN Raise("ValueError", << "properties must not be empty" >>)
    ELSE ValidateFields(properties, Keys(properties))

_validate_properties(properties) ==
    IF ~IsDict(properties)
    THEN Raise("ValueError", << "properties must be a dictionary" >>)
    ELSE ValidateFields(properties, Keys(properties))

\* validate_schema with the 'properties' check made before the 'type' checks
validate_schema_PropertiesFirst(s) ==
    IF ~Has(s, "properties")
    THEN Raise("ValueError", << "Schema must have a 'properties' field" >>)
    ELSE IF ~Has(s, "type")
    THEN Raise("ValueError", << "Schema must have a 'type' field" >>)
    ELSE IF ~EqStr(Get(s, "type"), "object")
    THEN Raise("ValueError", << "Top-level schema must be of type 'object'" >>)
    ELSE Then(_validate_properties(Get(s, "properties")),
         Then(IF Has(s, "required")
              THEN WrapValueError(<< "Invalid required fields: " >>,
                       validate_required_fields(Get(s, "required"), Get(s, "properties")))
              ELSE None,
              Ok(s)))

\* validate_schema returning a normalised copy (with 'required' filled in)
\* instead of the document it was given
validate_schema_ReturnsCopy(s) ==
    IF ~Has(s, "type")
    THEN Raise("ValueError", << "Schema must have a 'type' field" >>)
    ELSE IF ~EqStr(Get(s, "type"), "object")
    THEN Raise("ValueError", << "Top-level schema must be of type 'object'" >>)
    ELSE IF ~Has(s, "properties")
    THEN Raise("ValueError", << "Schema must have a 'properties' field" >>)
    ELSE Then(_validate_properties(Get(s, "properties")),
         Then(IF Has(s, "required")
              THEN WrapValueError(<< "Invalid required fields: " >>,
                       validate_required_fields(Get(s, "required"), Get(s, "properties")))
              ELSE None,
              Ok(JDict(Frag("required", JList(<<>>)) @@ s.d))))

validate_schema(s) ==
    IF s.k \in { "null", "int", "float", "bool" }
    THEN \* "type" not in schema, on a value that is no container
         Raise("TypeError",
               << "argument of type '", IF s.k = "null" THEN "NoneType" ELSE s.k,
                  "' is not iterable" >>)
    ELSE IF IsList(s)
    THEN IF JStr("type") \notin Range(s.l)
         THEN Raise("ValueError", << "Schema must have a 'type' field" >>)
         ELSE Raise("TypeError", << "list indices must be integers or slices, not str" >>)
    ELSE IF ~Has(s, "type")
    THEN Raise("ValueError", << "Schema must have a 'type' field" >>)
    ELSE IF ~EqStr(Get(s, "type"), "object")
    THEN Raise("ValueError", << "Top-level schema must be of type 'object'" >>)
    ELSE IF ~Has(s, "properties")
    THEN Raise("ValueError", << "Schema must have a 'properties' field" >>)
    ELSE Then(_validate_properties(Get(s, "properties")),
         Then(IF Has(s, "required")
              THEN WrapValueError(<< "Invalid required fields: " >>,
                       validate_required_fields(Get(s, "required"), Get(s, "properties")))
              ELSE None,
              Ok(s)))

-----------------------------------------------------------------------------
(* model_builder.py: ModelBuilder.  A resolved type is a record, like the  *)
(* Python type object: a primitive, list[T], a union, Literal[...] or a     *)
(* model class with its fields.                                            *)

TPrim(t)      == [k |-> "prim", t |-> t]
TListOf(item) == [k |-> "list_of", item |-> item]

\* Literal[tuple(vs)]: typing keeps the first of equal parameters (equal in
\* value and in type)
RECURSIVE Distinct(_, _)
Distinct(seen, rest) ==
    IF rest = <<>>
    THEN seen
    ELSE IF \E i \in DOMAIN seen : seen[i] = Head(rest)
         THEN Distinct(seen, Tail(rest))
         ELSE Distinct(Append(seen, Head(rest)), Tail(rest))

TLiteral(vs)  == [k |-> "literal", vals |-> Distinct(<<>>, vs)]
TModel(name, fields) == [k |-> "model", name |-> name, fields |-> fields]

TStr  == TPrim("str")
TNone == TPrim("NoneType")

\* the Ellipsis object: the "no default" marker
Ellipsis == [k |-> "ellipsis"]

Truthy(v) ==
    CASE v.k = "str"   -> v.s # ""
      [] v.k = "int"   -> v.n # 0
      [] v.k = "float" -> v.n # 0
      [] v.k = "bool"  -> v.b
      [] v.k = "null"  -> FALSE
      [] v.k = "list"  -> v.l # <<>>
      [] v.k = "dict"  -> DOMAIN v.d # {}
      [] OTHER         -> TRUE

RECURSIVE ContainsModel(_)
ContainsModel(t) ==
    CASE t.k = "model"   -> TRUE
      [] t.k = "list_of" -> ContainsModel(t.item)
      [] t.k = "union"   -> \E i \in DOMAIN t.args : ContainsModel(t.args[i])
      [] OTHER           -> FALSE

\* a | b on type objects: the members of both sides, flattened, without
\* repeats.  Two classes made by two create_model calls are never the same.
UnionArgs(t) == IF t.k = "union" THEN t.args ELSE << t >>

RECURSIVE Dedup(_, _)
Dedup(seen, rest) ==
    IF rest = <<>>
    THEN seen
    ELSE IF \E i \in DOMAIN seen : seen[i] = Head(rest) /\ ~ContainsModel(Head(rest))
         THEN Dedup(seen, Tail(rest))
         ELSE Dedup(Append(seen, Head(rest)), Tail(rest))

PyUnion(a, b) ==
    LET args == Dedup(<<>>, UnionArgs(a) \o UnionArgs(b))
    IN  IF Len(args) = 1 THEN args[1] ELSE [k |-> "union", args |-> args]

\* Optional[t]
TOptional(t) == PyUnion(t, TNone)

RECURSIVE UnionOf(_, _)
UnionOf(acc, types) ==
    IF types = <<>> THEN acc ELSE UnionOf(PyUnion(acc, Head(types)), Tail(types))

\* SupportedType.to_type_mapping (model.py 27-37): a KeyError outside the table
to_type_mapping(value) ==
    CASE value = "string"  -> Ok(TPrim("str"))
      [] value = "integer" -> Ok(TPrim("int"))
      [] value = "number"  -> Ok(TPrim("float"))
      [] value = "boolean" -> Ok(TPrim("bool"))
      [] value = "array"   -> Ok(TPrim("list"))
      [] value = "object"  -> Ok(TPrim("dict"))
      [] value = "null"    -> Ok(TNone)
      [] OTHER             -> Raise("KeyError", << value >>)

\* StringFormat.to_format_mapping (model.py 55-67)
to_format_mapping(value) ==
    CASE value = "date-time" -> TPrim("datetime")
      [] value = "date"      -> TPrim("date")
      [] value = "time"      -> TPrim("time")
      [] OTHER               -> TStr

\* the characters of a str, as iterating it yields them; the strings that the
\* documents of this model put where a list is expected have at most one
\* character
Chars(str) == IF str = "" THEN <<>> ELSE << JStr(str) >>

RECURSIVE build_model(_, _)
RECURSIVE _get_field_type(_)
RECURSIVE ResolveAll(_)
RECURSIVE BuildFields(_, _, _, _)

\* [f(x) for x in infos] with f = _get_field_type: the first raise ends it
ResolveAll(infos) ==
    IF infos = <<>>
    THEN Ok(<<>>)
    ELSE LET h == _get_field_type(Head(infos))
         IN  IF ~h.ok THEN h
             ELSE LET t == ResolveAll(Tail(infos))
                  IN  IF ~t.ok THEN t ELSE Ok(<< h.value >> \o t.value)

\* the per-element branch of the type-list loop (model_builder.py 91-95)
ListElementType(t) ==
    IF is_supported_type(t) THEN to_type_mapping(t.s) ELSE Ok(TStr)

RECURSIVE ListElementTypes(_)
ListElementTypes(l) ==
    IF l = <<>>
    THEN Ok(<<>>)
    ELSE LET h == ListElementType(Head(l))
         IN  IF ~h.ok THEN h
             ELSE LET t == ListElementTypes(Tail(l))
                  IN  IF ~t.ok THEN t ELSE Ok(<< h.value >> \o t.value)

\* _handle_any_of keeping the first member only
_handle_any_of_FirstMember(any_of_list) ==
    IF ~Truthy(any_of_list)
    THEN Ok(TStr)
    ELSE IF ~IsList(any_of_list)
    THEN IF IsStr(any_of_list)
         THEN Raise("AttributeError", << "'str' object has no attribute 'get'" >>)
         ELSE Raise("TypeError", << "object is not iterable" >>)
    ELSE LET types == ResolveAll(any_of_list.l)
         IN  IF ~types.ok THEN types
             ELSE Ok(Head(types.value))

_handle_any_of(any_of_list) ==
    IF ~Truthy(any_of_list)
    THEN Ok(TStr)
    ELSE IF ~IsList(any_of_list)
    THEN IF IsStr(any_of_list)
         THEN Raise("AttributeError", << "'str' object has no attribute 'get'" >>)
         ELSE Raise("TypeError", << "object is not iterable" >>)
    ELSE LET types == ResolveAll(any_of_list.l)
         IN  IF ~types.ok THEN types
             ELSE Ok(UnionOf(Head(types.value), Tail(types.value)))

_handle_enum(field_info) ==
    LET values == Get(field_info, "enum")
    IN  IF ~Truthy(values)
        THEN Ok(TStr)
        ELSE IF IsList(values) THEN Ok(TLiteral(values.l))
        ELSE IF IsStr(values)  THEN Ok(TLiteral(Chars(values.s)))
        ELSE Raise("TypeError", << "object is not iterable" >>)

_handle_array(field_info) ==
    IF ~Has(field_info, "items")
    THEN Ok(TPrim("list"))
    ELSE LET item == _get_field_type(Get(field_info, "items"))
         IN  IF ~item.ok THEN item ELSE Ok(TListOf(item.value))

\* _handle_object naming every nested model "NestedModel"
_handle_object_IgnoresTitle(field_info) ==
    IF ~Has(field_info, "properties")
    THEN Ok(TPrim("dict"))
    ELSE build_model(field_info, JStr("NestedModel"))

_handle_object(field_info) ==
    IF ~Has(field_info, "properties")
    THEN Ok(TPrim("dict"))
    ELSE build_model(field_info, GetOr(field_info, "title", JStr("NestedModel")))

\* _get_field_type looking at enum before anyOf
_get_field_type_EnumFirst(field_info) ==
    IF ~IsDict(field_info)
    THEN IF field_info.k \in {"str", "list"}
         THEN Raise("AttributeError", << "object has no attribute 'get'" >>)
         ELSE Raise("TypeError", << "argument is not iterable" >>)
    ELSE IF Has(field_info, "enum")  THEN _handle_enum(field_info)
    ELSE IF Has(field_info, "anyOf") THEN _handle_any_of(Get(field_info, "anyOf"))
    ELSE LET type_str == GetOr(field_info, "type", JStr("string"))
         IN  IF IsList(type_str)
             THEN LET types == ListElementTypes(type_str.l)
                  IN  IF ~types.ok THEN types
                      ELSE IF types.value = <<>>
                      THEN Raise("IndexError", << "list index out of range" >>)
                      ELSE Ok(UnionOf(Head(types.value), Tail(types.value)))
             ELSE IF /\ Has(field_info, "format")
                     /\ is_supported_format(Get(field_info, "format"))
             THEN Ok(to_format_mapping(Get(field_info, "format").s))
             ELSE IF EqStr(type_str, "array")  THEN _handle_array(field_info)
             ELSE IF EqStr(type_str, "object") THEN _handle_object(field_info)
             ELSE IF is_supported_type(type_str) THEN to_type_mapping(type_str.s)
             ELSE Ok(TStr)

_get_field_type(field_info) ==
    IF ~IsDict(field_info)
    THEN IF field_info.k \in {"str", "list"}
         THEN Raise("AttributeError", << "object has no attribute 'get'" >>)
         ELSE Raise("TypeError", << "argument is not iterable" >>)
    ELSE IF Has(field_info, "anyOf") THEN _handle_any_of(Get(field_info, "anyOf"))
    ELSE IF Has(field_info, "enum")  THEN _handle_enum(field_info)
    ELSE LET type_str == GetOr(field_info, "type", JStr("string"))
         IN  IF IsList(type_str)
             THEN LET types == ListElementTypes(type_str.l)
                  IN  IF ~types.ok THEN types
                      ELSE IF types.value = <<>>
                      THEN Raise("IndexError", << "list index out of range" >>)
                      ELSE Ok(UnionOf(Head(types.value), Tail(types.value)))
             ELSE IF /\ Has(field_info, "format")
                     /\ is_supported_format(Get(field_info, "format"))
             THEN Ok(to_format_mapping(Get(field_info, "format").s))
             ELSE IF EqStr(type_str, "array")  THEN _handle_array(field_info)
             ELSE IF EqStr(type_str, "object") THEN _handle_object(field_info)
             ELSE IF is_supported_type(type_str) THEN to_type_mapping(type_str.s)
             ELSE Ok(TStr)

\* FieldEntry taking a missing default for a default of null
FieldEntry_NullDefault(field_type, field_info, is_required) ==
    LET description   == GetOr(field_info, "description", JNull)
        default_value == GetOr(field_info, "default", JNull)
        note          == IF Truthy(description) THEN description ELSE JNull
    IN  IF is_required
        THEN [annotation |-> field_type, required |-> TRUE,
              default |-> default_value, description |-> note]
        ELSE IF default_value = JNull
        THEN [annotation |-> TOptional(field_type), required |-> FALSE,
              default |-> JNull, description |-> note]
        ELSE [annotation |-> field_type, required |-> FALSE,
              default |-> default_value, description |-> note]

\* the entry build_model makes for one field (model_builder.py 37-59)
FieldEntry(field_type, field_info, is_required) ==
    LET description   == GetOr(field_info, "description", JNull)
        default_value == GetOr(field_info, "default", Ellipsis)
        note          == IF Truthy(description) THEN description ELSE JNull
    IN  IF is_required
        THEN [annotation |-> field_type, required |-> TRUE,
              default |-> Ellipsis, description |-> note]
        ELSE IF default_value = Ellipsis
        THEN [annotation |-> TOptional(field_type), required |-> FALSE,
              default |-> JNull, description |-> note]
        ELSE [annotation |-> field_type, required |-> FALSE,
              default |-> default_value, description |-> note]

\* the loop over properties.items() (model_builder.py 35-59)
BuildFields(properties, keys, required_fields, fields) ==
    IF keys = <<>>
    THEN Ok(fields)
    ELSE LET field_name == Head(keys)
             field_info == Get(properties, field_name)
             field_type == _get_field_type(field_info)
         IN  IF ~field_type.ok THEN field_type
             ELSE BuildFields(properties, Tail(keys), required_fields,
                      fields @@ (field_name :>
                          FieldEntry(field_type.value, field_info,
                                     JStr(field_name) \in required_fields)))

\* set(schema.get("required", []))
RequiredSet(required) ==
    CASE IsList(required) ->
            IF \E i \in DOMAIN required.l : required.l[i].k \in {"list", "dict"}
            THEN Raise("TypeError", << "unhashable type" >>)
            ELSE Ok(Range(required.l))
      [] IsStr(required)  -> Ok(Range(Chars(required.s)))
      [] IsDict(required) -> Ok({ JStr(key) : key \in DOMAIN required.d })
      [] OTHER            -> Raise("TypeError", << "object is not iterable" >>)

build_model(s, model_name) ==
    IF ~EqStr(GetOr(s, "type", JNull), "object")
    THEN Raise("ValueError", << "Top-level schema must be of type 'object'" >>)
    ELSE LET name       == IF Truthy(model_name) THEN model_name
                           ELSE GetOr(s, "title", JStr("DynamicModel"))
             properties == GetOr(s, "properties", JDict(EmptyDict))
             required_fields == RequiredSet(GetOr(s, "required", JList(<<>>)))
         IN  IF ~required_fields.ok THEN required_fields
             ELSE IF ~IsDict(properties)
             THEN Raise("AttributeError", << "object has no attribute 'items'" >>)
             ELSE LET fields == BuildFields(properties, Keys(properties),
                                            required_fields.value, EmptyDict)
                  IN  IF ~fields.ok THEN fields
                      ELSE Ok(TModel(name, fields.value))

-----------------------------------------------------------------------------
(* prompts.py, schema_generator.py, extractor.py                           *)

\* str(e): the message of an exception, its parts joined
RECURSIVE Cat(_)
Cat(parts) == IF parts = <<>> THEN "" ELSE Head(parts) \o Cat(Tail(parts))

\* json.dumps(v, ensure_ascii=False): separators ", " and ": "
RECURSIVE json_dumps(_)
RECURSIVE DumpItems(_)
RECURSIVE DumpPairs(_, _)
DumpItems(l) ==
    IF l = <<>> THEN ""
    ELSE json_dumps(Head(l)) \o (IF Len(l) > 1 THEN ", " ELSE "") \o DumpItems(Tail(l))

DumpPairs(v, keys) ==
    IF keys = <<>> THEN ""
    ELSE "\"" \o Head(keys) \o "\": " \o json_dumps(Get(v, Head(keys)))
         \o (IF Len(keys) > 1 THEN ", " ELSE "") \o DumpPairs(v, Tail(keys))

json_dumps(v) ==
    CASE v.k = "str"   -> "\"" \o v.s \o "\""
      [] v.k = "int"   -> IntStr(v.n)
      [] v.k = "float" -> PyStr(v)
      [] v.k = "bool"  -> IF v.b THEN "true" ELSE "false"
      [] v.k = "null"  -> "null"
      [] v.k = "list"  -> "[" \o DumpItems(v.l) \o "]"
      [] v.k = "dict"  -> "{" \o DumpPairs(v, Keys(v)) \o "}"

\* a handler that catches every exception
IsValueError_CatchesAll(exc) == TRUE

\* the exceptions an `except ValueError` clause catches
IsValueError(exc) == exc \in { "ValueError", "JSONDecodeError" }

\* prompts.get_schema_extraction_messages: the system prompt and the user
\* template filled with the prompt, by mode
get_schema_extraction_messages(prompt, use_high_reasoning) ==
    IF use_high_reasoning
    THEN << [role |-> "system", content |-> "SCHEMA_EXTRACTION_SYSTEM_PROMPT_HIGH_REASONING"],
            [role |-> "user",
             content |-> "SCHEMA_EXTRACTION_USER_PROMPT_TEMPLATE_HIGH_REASONING:" \o prompt] >>
    ELSE << [role |-> "system", content |-> "SCHEMA_EXTRACTION_SYSTEM_PROMPT"],
            [role |-> "user",
             content |-> "SCHEMA_EXTRACTION_USER_PROMPT_TEMPLATE:" \o prompt] >>

RetryHead ==
    "The previous schema had validation errors. Please fix the schema based on the following error:\n\n**Validation Error:**\n"

RetryTail ==
    "\n\n**Instructions:**\n1. Carefully read the error message and identify what went wrong\n2. Fix the specific issue mentioned in the error\n3. Ensure all fields have proper types and constraints\n4. Make sure to set additionalProperties to false\n5. Verify all required fields are listed in the \"required\" array\n6. Double-check that you're using only supported types and formats\n\nPlease generate a corrected JSON Schema that addresses the validation error."

\* prompts.get_schema_retry_messages; None is JNull
get_schema_retry_messages(original_prompt, previous_schema, error_message, use_high_reasoning) ==
    LET messages == get_schema_extraction_messages(original_prompt, use_high_reasoning)
        with_previous ==
            IF Truthy(previous_schema)
            THEN Append(messages, [role |-> "assistant", content |-> json_dumps(previous_schema)])
            ELSE messages
    IN  Append(with_previous,
               [role |-> "user", content |-> RetryHead \o error_message \o RetryTail])

\* SchemaGenerator._call_api on the response the client gives: the call
\* itself raises, or the content is empty, is no JSON, or is a JSON document
_call_api(response) ==
    CASE response.kind = "api_error" -> Raise("APIError", << "API Error" >>)
      [] response.kind = "empty"     ->
            Raise("ValueError", << "Response from OpenAI API is empty" >>)
      [] response.kind = "not_json"  ->
            Raise("ValueError", << "Response from OpenAI API is not valid JSON: ",
                                   "Expecting value: line 1 column 1 (char 0)" >>)
      [] response.kind = "json"      -> Ok(response.doc)

\* the try block returning what _call_api gave without validating it
TryAttempt_SkipsValidation(response) == _call_api(response)

\* the try block of extract_from_prompt (schema_generator.py 62-71)
TryAttempt(response) ==
    LET called == _call_api(response)
    IN  IF ~called.ok THEN called
        ELSE Then(validate_schema(called.value), Ok(called.value))

\* StructureExtractor._extract_schema_from_prompt around the outcome of
\* extract_from_prompt
_extract_schema_from_prompt(r) ==
    IF r.ok THEN r
    ELSE Raise("ExtractionError", << "Failed to extract schema: " >> \o r.msg)

\* StructureExtractor._validate_schema
_validate_schema(s) ==
    LET r == validate_schema(s)
    IN  IF ~r.ok /\ IsValueError(r.exc)
        THEN Raise("SchemaValidationError", << "Failed to validate schema: " >> \o r.msg)
        ELSE r

\* the build step letting the builder's exception through as it is
_build_model_Unwrapped(s) == build_model(s, JNull)

\* StructureExtractor._build_model
_build_model(s) ==
    LET r == build_model(s, JNull)
    IN  IF ~r.ok
        THEN Raise("ModelBuildError", << "Failed to build model: " >> \o r.msg)
        ELSE r

\* StructureExtractor.extract_structure, from the outcome of the generator
extract_structure(r) ==
    LET schema_json      == _extract_schema_from_prompt(r)
        validated_schema == Then(schema_json, _validate_schema(schema_json.value))
        model_class      == Then(validated_schema, _build_model(validated_schema.value))
    IN  IF model_class.ok \/ model_class.exc \in { "SchemaValidationError", "ModelBuildError" }
        THEN model_class
        ELSE Raise("ExtractionError",
                   << "Error occurred during structure extraction: " >> \o model_class.msg)

\* StructureExtractor.load_from_json on a file that is missing, holds text
\* that is no JSON, or holds a JSON document
load_from_json(f) ==
    CASE f.kind = "missing"  -> Raise("FileNotFoundError", << "Schema file not found: ", f.path >>)
      [] f.kind = "not_json" ->
            Raise("JSONDecodeError", << "Expecting value: line 1 column 1 (char 0)" >>)
      [] f.kind = "json"     ->
            LET r == validate_schema(f.doc)
            IN  IF ~r.ok
                THEN IF IsValueError(r.exc)
                     THEN Raise("SchemaValidationError",
                                << "Failed to validate schema: " >> \o r.msg)
                     ELSE r
                ELSE _build_model(r.value)

-----------------------------------------------------------------------------
(* The schema documents the operations are applied to.                     *)

MaxDepth == 1        \* nesting of object / array containers below a root field

StrList(names) == JList([i \in DOMAIN names |-> JStr(names[i])])

TypeTokens == Range(SupportedTypeValues) \cup { "bogus" }

TypeFrags ==
    { EmptyDict }
    \cup { Frag("type", JStr(t)) : t \in TypeTokens }
    \cup { Frag("type", StrList(l)) :
             l \in { << "string", "null" >>, << "integer" >>,
                     << "string", "bogus" >>, << "number", "enum" >> } }

FormatFrags == { Frag("format", JStr(f)) : f \in { "email", "date-time", "date", "time", "bogus" } }

EnumFrags ==
    { Frag("enum", e) :
        e \in { StrList(<< "p", "q" >>), JList(<<>>), StrList(<< "p", "p" >>),
                JList(<< JInt(1), JStr("1") >>) } }

AnyOfFrags ==
    { Frag("anyOf", m) :
        m \in { JStr("invalid"), JList(<<>>),
                JList(<< JDict(Frag("type", JStr("string"))) >>),
                JList(<< JDict(Frag("type", JStr("string"))),
                         JDict(Frag("type", JStr("integer"))) >>),
                JList(<< JDict(Frag("type", JStr("integer"))),
                         JDict(Frag("type", StrList(<< "string", "null" >>))),
                         JDict(Frag("type", JStr("integer"))) >>),
                JList(<< JStr("m") >>),
                JList(<< JDict(Frag("type", JStr("bogus"))) >>) } }

NumberFrags ==
    { Frag("minimum", JInt(0)),
      Frag("maximum", JInt(9)) @@ Frag("exclusiveMaximum", JInt(9)),
      Frag("multipleOf", JInt(0)),
      Frag("multipleOf", JFloat(5)) }

ArrayFrags ==
    { Frag("minItems", JInt(1)) @@ Frag("maxItems", JInt(2)),
      Frag("minItems", JInt(2)) @@ Frag("maxItems", JInt(1)),
      Frag("minItems", JInt(-1)),
      Frag("maxItems", JBool(TRUE)),
      Frag("items", JDict(Frag("type", JStr("string")))),
      Frag("items", JStr("string")) }

MetaFrags ==
    { Frag("description", JStr("d")), Frag("default", JStr("v")),
      Frag("title", JStr("T")), Frag("examples", JList(<< JStr("v") >>)),
      Frag("pattern", JStr("r")) }

ExtraFrags ==
    { EmptyDict } \cup FormatFrags \cup EnumFrags \cup AnyOfFrags
    \cup NumberFrags \cup ArrayFrags \cup MetaFrags

\* fields without nested properties, and two values that are no dict at all
LeafFields ==
    { JDict(t @@ e) : t \in TypeFrags, e \in ExtraFrags } \cup { JStr("f"), JNull }

RequiredFrags(names) ==
    { EmptyDict } \cup { Frag("required", StrList(l)) : l \in names }

\* an object schema with the single property x
ObjectOf(child, req) ==
    Frag("type", JStr("object")) @@ Frag("properties", JDict(Frag("x", child))) @@ req

\* the fields put below a container
InnerExtraFrags ==
    { EmptyDict, Frag("format", JStr("bogus")), Frag("enum", StrList(<< "p", "p" >>)),
      Frag("anyOf", JList(<<>>)), Frag("minimum", JInt(0)), Frag("default", JStr("v")) }

InnerLeafFields ==
    { JDict(t @@ e) : t \in TypeFrags, e \in InnerExtraFrags } \cup { JStr("f") }

\* the container fields over the fields of inner: an object with the
\* property x, a dict with 'properties' and no 'type', an array of such
\* objects, an array with any field as its items
Containers(inner) ==
    LET objects == { ObjectOf(c, r) :
                       c \in inner, r \in RequiredFrags({ << "x" >>, << "b" >> }) }
    IN  { JDict(o) : o \in objects }
        \cup { JDict(Frag("properties", JDict(Frag("x", c)))) : c \in inner }
        \cup { JDict(Frag("type", JStr("array")) @@ Frag("items", JDict(o))) : o \in objects }
        \cup { JDict(Frag("type", JStr("array")) @@ Frag("items", c)) : c \in inner }

RECURSIVE InnerFields(_)
InnerFields(depth) ==
    IF depth = 0
    THEN InnerLeafFields
    ELSE InnerLeafFields \cup Containers(InnerFields(depth - 1))

Fields(depth) ==
    IF depth = 0
    THEN LeafFields
    ELSE LeafFields \cup Containers(InnerFields(depth - 1))

\* fields for the documents with two properties
PairFields ==
    { JDict(Frag("type", JStr("string"))),
      JDict(Frag("type", JStr("integer")) @@ Frag("format", JStr("int32"))),
      JDict(Frag("type", JStr("bogus"))),
      JDict(Frag("type", JStr("anyOf"))),
      JDict(Frag("type", JStr("string")) @@ Frag("default", JStr("v"))),
      JDict(Frag("enum", StrList(<< "p", "p" >>))),
      JDict(Frag("anyOf", JList(<<>>))),
      JDict(ObjectOf(JDict(Frag("type", JStr("number"))), Frag("required", StrList(<< "b" >>)))),
      \* fields that carry the keys of several resolution rules
      JDict(Frag("type", JStr("boolean")) @@ Frag("enum", StrList(<< "p", "q" >>))
            @@ Frag("anyOf", JList(<< JDict(Frag("type", JStr("string"))),
                                      JDict(Frag("type", JStr("integer"))) >>))),
      JDict(Frag("type", JStr("string")) @@ Frag("format", JStr("date-time"))
            @@ Frag("enum", StrList(<< "p", "q" >>))),
      \* a nested object with a title
      JDict(ObjectOf(JDict(Frag("type", JStr("string"))), Frag("required", StrList(<< "x" >>)))
            @@ Frag("title", JStr("T"))) }

RootTypeFrags ==
    { EmptyDict, Frag("type", JStr("object")), Frag("type", JStr("string")),
      Frag("type", StrList(<< "object" >>)) }

RootRequiredFrags ==
    RequiredFrags({ <<>>, << "a" >>, << "b" >>, << "a", "b" >> })
    \cup { Frag("required", JStr("a")), Frag("required", JList(<< JInt(1) >>)) }

RootPropertiesFrags ==
    { EmptyDict, Frag("properties", JDict(EmptyDict)), Frag("properties", JStr("p")) }
    \cup { Frag("properties", JDict(Frag("a", f))) : f \in PairFields }

\* The nesting limit a depth guard would be configured with.  Neither
\* _validate_properties nor _handle_object / _handle_array / _handle_any_of
\* takes a depth or a limit; the recursion is the same at every level, so the
\* limit is taken inside the depths the documents reach.
DepthLimit == 3

\* n object schemas, one inside the other, around a string field
RECURSIVE NestedObjects(_)
NestedObjects(n) ==
    IF n = 0
    THEN JDict(Frag("type", JStr("string")))
    ELSE JDict(ObjectOf(NestedObjects(n - 1), EmptyDict))

SchemaDocs ==
    \* every root shape, over a few property mappings
    { JDict(t @@ p @@ r) :
        t \in RootTypeFrags, p \in RootPropertiesFrags, r \in RootRequiredFrags }
    \* an object root with one property, over every field
    \cup { JDict(Frag("type", JStr("object")) @@ Frag("properties", JDict(Frag("a", f))) @@ r) :
             f \in Fields(MaxDepth), r \in RequiredFrags({ << "a" >>, << "b" >> }) }
    \* an object root with two properties
    \cup { JDict(Frag("type", JStr("object"))
                 @@ Frag("properties", JDict(Frag("a", f) @@ Frag("b", g))) @@ r) :
             f \in PairFields, g \in PairFields,
             r \in RequiredFrags({ << "a" >>, << "a", "b" >> }) }
    \* a schema nested one level deeper than the nesting limit
    \cup { NestedObjects(DepthLimit + 1) }

-----------------------------------------------------------------------------
(* The operations.                                                         *)

Idle == Raise("", <<>>)

\* extract_from_prompt not entered, load_from_json not pointed at a file
NoGen  == [max_retries |-> 0, use_high_reasoning |-> FALSE, attempt |-> 0,
           messages |-> <<>>, last_error |-> JNull, last_schema |-> JNull]
NoFile == [kind |-> "none"]

\* a fresh document and no call made yet
Init ==
    /\ schema \in SchemaDocs
    /\ pc = "start"
    /\ vres = Idle
    /\ bres = Idle
    /\ enum_values = JNull
    /\ enum_res = Idle
    /\ constraints = JNull
    /\ arr_res = Idle
    /\ gen = NoGen
    /\ api_calls = <<>>
    /\ gen_res = Idle
    /\ ext_res = Idle
    /\ file = NoFile
    /\ load_res = Idle

\* SchemaValidator.validate_schema(schema)
ValidateSchema ==
    /\ pc = "start"
    /\ vres' = validate_schema(schema)
    /\ pc' = "validated"
    /\ UNCHANGED << schema, bres, enum_values, enum_res, constraints, arr_res,
                    gen, api_calls, gen_res, ext_res, file, load_res >>

\* ModelBuilder().build_model(schema)
BuildModel ==
    /\ pc = "validated"
    /\ bres' = build_model(schema, JNull)
    /\ pc' = "built"
    /\ UNCHANGED << schema, vres, enum_values, enum_res, constraints, arr_res,
                    gen, api_calls, gen_res, ext_res, file, load_res >>

Next == ValidateSchema \/ BuildModel

Spec == Init /\ [][Next]_vars

-----------------------------------------------------------------------------
(* validate_enum applied to bounded enum values.                           *)

MaxEnumLen == 3      \* longest enum list

EnumAtoms ==
    { JStr("p"), JStr("1"), JInt(1), JFloat(10), JBool(TRUE), JStr("True"), JNull }

EnumInputs ==
    { JList(l) : l \in UNION { [1..n -> EnumAtoms] : n \in 0..MaxEnumLen } }
    \cup { JStr("p"), JInt(1), JNull, JDict(EmptyDict) }

InitEnum ==
    /\ enum_values \in EnumInputs
    /\ pc = "enum"
    /\ enum_res = Idle
    /\ schema = JDict(EmptyDict)
    /\ vres = Idle
    /\ bres = Idle
    /\ constraints = JNull
    /\ arr_res = Idle
    /\ gen = NoGen
    /\ api_calls = <<>>
    /\ gen_res = Idle
    /\ ext_res = Idle
    /\ file = NoFile
    /\ load_res = Idle

\* SchemaValidator.validate_enum(enum_values)
ValidateEnum ==
    /\ pc = "enum"
    /\ enum_res' = validate_enum(enum_values)
    /\ pc' = "enum_done"
    /\ UNCHANGED << schema, vres, bres, enum_values, constraints, arr_res,
                    gen, api_calls, gen_res, ext_res, file, load_res >>

NextEnum == ValidateEnum

SpecEnum == InitEnum /\ [][NextEnum]_vars

-----------------------------------------------------------------------------
(* validate_array_constraints applied to bounded constraint dicts.         *)

MaxItemsVal == 2     \* largest minItems / maxItems

BoundValues ==
    { JInt(n) : n \in -1..MaxItemsVal }
    \cup { JBool(TRUE), JBool(FALSE), JStr("2"), JFloat(15), JNull }

ArrayInputs ==
    { JDict(t @@ lo @@ hi @@ e) :
        t  \in { EmptyDict, Frag("type", JStr("array")) },
        lo \in { EmptyDict } \cup { Frag("minItems", v) : v \in BoundValues },
        hi \in { EmptyDict } \cup { Frag("maxItems", v) : v \in BoundValues },
        e  \in { EmptyDict, Frag("items", JDict(EmptyDict)),
                 Frag("description", JStr("d")), Frag("uniqueItems", JBool(TRUE)) } }

InitArray ==
    /\ constraints \in ArrayInputs
    /\ pc = "array"
    /\ arr_res = Idle
    /\ schema = JDict(EmptyDict)
    /\ vres = Idle
    /\ bres = Idle
    /\ enum_values = JNull
    /\ enum_res = Idle
    /\ gen = NoGen
    /\ api_calls = <<>>
    /\ gen_res = Idle
    /\ ext_res = Idle
    /\ file = NoFile
    /\ load_res = Idle

\* SchemaValidator.validate_array_constraints(constraints)
ValidateArrayConstraints ==
    /\ pc = "array"
    /\ arr_res' = validate_array_constraints(constraints)
    /\ pc' = "array_done"
    /\ UNCHANGED << schema, vres, bres, enum_values, enum_res, constraints,
                    gen, api_calls, gen_res, ext_res, file, load_res >>

NextArray == ValidateArrayConstraints

SpecArray == InitArray /\ [][NextArray]_vars

-----------------------------------------------------------------------------
(* extract_from_prompt: the retry loop against the responses of the LLM    *)
(* collaborator, and extract_structure around it.                          *)

MaxRetries == 3      \* largest max_retries

Prompt == "p"

\* the documents the collaborator answers with: {} and a root of type string
\* fail validation, the third is valid, the fourth is valid and cannot be
\* built, the last is JSON and no object
ResponseDocs ==
    { JDict(EmptyDict),
      JDict(Frag("type", JStr("string"))),
      JDict(Frag("type", JStr("object"))
            @@ Frag("properties", JDict(Frag("a", JDict(Frag("type", JStr("string"))))))),
      JDict(Frag("type", JStr("object"))
            @@ Frag("properties", JDict(Frag("a", JDict(Frag("type", JStr("enum"))))))),
      JNull }

Responses ==
    { [kind |-> "api_error", doc |-> JNull],
      [kind |-> "empty", doc |-> JNull],
      [kind |-> "not_json", doc |-> JNull] }
    \cup { [kind |-> "json", doc |-> d] : d \in ResponseDocs }

\* extract_from_prompt up to the loop (schema_generator.py 55-59)
InitExtract ==
    /\ \E n \in 0..MaxRetries, high \in BOOLEAN :
          gen = [max_retries |-> n, use_high_reasoning |-> high, attempt |-> 0,
                 messages |-> get_schema_extraction_messages(Prompt, high),
                 last_error |-> JNull, last_schema |-> JNull]
    /\ api_calls = <<>>
    /\ gen_res = Idle
    /\ ext_res = Idle
    /\ pc = "loop"
    /\ schema = JDict(EmptyDict)
    /\ vres = Idle
    /\ bres = Idle
    /\ enum_values = JNull
    /\ enum_res = Idle
    /\ constraints = JNull
    /\ arr_res = Idle
    /\ file = NoFile
    /\ load_res = Idle

\* the loop body raising, after the last attempt, with the error it held
\* before that attempt
Attempt_StaleLastError(response) ==
    /\ pc = "loop"
    /\ gen.attempt < gen.max_retries
    /\ api_calls' = Append(api_calls, [messages |-> gen.messages, response |-> response])
    /\ LET called      == _call_api(response)
           tried       == TryAttempt(response)
           last_schema == IF called.ok THEN called.value ELSE gen.last_schema
           last_error  == Cat(tried.msg)
       IN  IF tried.ok \/ ~IsValueError(tried.exc)
           THEN /\ gen' = [gen EXCEPT !.last_schema = last_schema]
                /\ gen_res' = tried
                /\ pc' = "generated"
           ELSE IF gen.attempt = gen.max_retries - 1
           THEN /\ gen' = [gen EXCEPT !.last_schema = last_schema]
                /\ gen_res' = Raise("ValueError",
                       << "Failed to generate valid schema after ", IntStr(gen.max_retries),
                          " attempts. Last error: ", PyStr(gen.last_error) >>)
                /\ pc' = "generated"
           ELSE /\ gen' = [gen EXCEPT
                             !.last_schema = last_schema,
                             !.last_error = JStr(last_error),
                             !.messages = get_schema_retry_messages(
                                 Prompt, last_schema, last_error, gen.use_high_reasoning),
                             !.attempt = gen.attempt + 1]
                /\ gen_res' = gen_res
                /\ pc' = pc
    /\ UNCHANGED << schema, vres, bres, enum_values, enum_res, constraints, arr_res,
                    ext_res, file, load_res >>

\* one pass of the loop body (schema_generator.py 61-88): the API call with
\* the current messages, the validation of what it returns, and the handler
Attempt(response) ==
    /\ pc = "loop"
    /\ gen.attempt < gen.max_retries
    /\ api_calls' = Append(api_calls, [messages |-> gen.messages, response |-> response])
    /\ LET called      == _call_api(response)
           tried       == TryAttempt(response)
           last_schema == IF called.ok THEN called.value ELSE gen.last_schema
           last_error  == Cat(tried.msg)
       IN  IF tried.ok \/ ~IsValueError(tried.exc)
           THEN \* return schema, or an exception the handler does not catch
                /\ gen' = [gen EXCEPT !.last_schema = last_schema]
                /\ gen_res' = tried
                /\ pc' = "generated"
           ELSE IF gen.attempt = gen.max_retries - 1
           THEN /\ gen' = [gen EXCEPT !.last_schema = last_schema,
                                      !.last_error = JStr(last_error)]
                /\ gen_res' = Raise("ValueError",
                       << "Failed to generate valid schema after ", IntStr(gen.max_retries),
                          " attempts. Last error: ", last_error >>)
                /\ pc' = "generated"
           ELSE /\ gen' = [gen EXCEPT
                             !.last_schema = last_schema,
                             !.last_error = JStr(last_error),
                             !.messages = get_schema_retry_messages(
                                 Prompt, last_schema, last_error, gen.use_high_reasoning),
                             !.attempt = gen.attempt + 1]
                /\ gen_res' = gen_res
                /\ pc' = pc
    /\ UNCHANGED << schema, vres, bres, enum_values, enum_res, constraints, arr_res,
                    ext_res, file, load_res >>

\* the loop ends without a pass having returned or raised (schema_generator.py 91)
Exhausted ==
    /\ pc = "loop"
    /\ gen.attempt >= gen.max_retries
    /\ gen_res' = Raise("ValueError",
           << "Failed to generate valid schema. Last error: ", PyStr(gen.last_error) >>)
    /\ pc' = "generated"
    /\ UNCHANGED << schema, vres, bres, enum_values, enum_res, constraints, arr_res,
                    gen, api_calls, ext_res, file, load_res >>

\* extract_structure goes on with what extract_from_prompt gave
ExtractStructure ==
    /\ pc = "generated"
    /\ ext_res' = extract_structure(gen_res)
    /\ pc' = "extracted"
    /\ UNCHANGED << schema, vres, bres, enum_values, enum_res, constraints, arr_res,
                    gen, api_calls, gen_res, file, load_res >>

NextExtract ==
    \/ \E response \in Responses : Attempt(response)
    \/ Exhausted
    \/ ExtractStructure

SpecExtract == InitExtract /\ [][NextExtract]_vars

-----------------------------------------------------------------------------
(* load_from_json applied to a file.                                       *)

Files ==
    { [kind |-> "missing", path |-> "schema.json", doc |-> JNull],
      [kind |-> "not_json", path |-> "schema.json", doc |-> JNull] }
    \cup { [kind |-> "json", path |-> "schema.json", doc |-> d] :
             d \in SchemaDocs \cup { JNull, JInt(0), JList(<<>>) } }

InitLoad ==
    /\ file \in Files
    /\ load_res = Idle
    /\ pc = "load"
    /\ schema = JDict(EmptyDict)
    /\ vres = Idle
    /\ bres = Idle
    /\ enum_values = JNull
    /\ enum_res = Idle
    /\ constraints = JNull
    /\ arr_res = Idle
    /\ gen = NoGen
    /\ api_calls = <<>>
    /\ gen_res = Idle
    /\ ext_res = Idle

\* StructureExtractor.load_from_json(file)
LoadFromJson ==
    /\ pc = "load"
    /\ load_res' = load_from_json(file)
    /\ pc' = "loaded"
    /\ UNCHANGED << schema, vres, bres, enum_values, enum_res, constraints, arr_res,
                    gen, api_calls, gen_res, ext_res, file >>

NextLoad == LoadFromJson

SpecLoad == InitLoad /\ [][NextLoad]_vars

-----------------------------------------------------------------------------
(* Properties of the validator and the builder.                            *)

\* the root passes the three root checks of validate_schema
RootIsObject(s) ==
    Has(s, "type") /\ EqStr(Get(s, "type"), "object") /\ Has(s, "properties")

\* the object schemas validate_schema descends into below a field: the
\* field itself when it is an object with properties, its items when it is
\* an array of objects with properties
LevelsBelow(f) ==
    IF ~IsDict(f) \/ ~Has(f, "type")
    THEN {}
    ELSE IF EqStr(Get(f, "type"), "object") /\ Has(f, "properties")
    THEN { f }
    ELSE IF /\ EqStr(Get(f, "type"), "array") /\ Has(f, "items")
            /\ IsDict(Get(f, "items")) /\ Has(Get(f, "items"), "type")
            /\ EqStr(Get(Get(f, "items"), "type"), "object")
            /\ Has(Get(f, "items"), "properties")
    THEN { Get(f, "items") }
    ELSE {}

\* every object schema whose properties the recursive pass walks, from level o
RECURSIVE Levels(_)
Levels(o) ==
    { o } \cup
    ( IF ~IsDict(Get(o, "properties"))
      THEN {}
      ELSE UNION { UNION { Levels(l) : l \in LevelsBelow(Get(Get(o, "properties"), n)) } :
                     n \in DOMAIN Get(o, "properties").d } )

\* the fields of those levels, each with its name
VisitedFields(s) ==
    IF ~RootIsObject(s)
    THEN {}
    ELSE UNION { { [name |-> n, info |-> Get(Get(o, "properties"), n)] :
                     n \in DOMAIN Get(o, "properties").d } :
                 o \in { l \in Levels(s) : IsDict(Get(l, "properties")) } }

SevenTypes == { "string", "number", "integer", "boolean", "object", "array", "null" }

TypeTokensOf(info) ==
    IF IsList(Get(info, "type")) THEN Range(Get(info, "type").l) ELSE { Get(info, "type") }

\* C1: every schema document that validate_schema accepts is built by
\* build_model without raising, and every type token validate_type accepts
\* is one the primitive mapping resolves.
C1_AcceptedSchemasBuild ==
    (pc = "built" /\ vres.ok) => bres.ok

\* C2: a root without 'type', or with a 'type' other than "object", makes
\* validate_schema raise and build_model raise; validate_schema reports the
\* first of: type missing, type not object, properties missing.
C2_RootTypeRejected ==
    pc = "built" =>
        /\ (~Has(schema, "type") \/ ~EqStr(Get(schema, "type"), "object"))
              => (~vres.ok /\ vres.exc = "ValueError" /\ ~bres.ok)
        /\ ~Has(schema, "type")
              => vres.msg = << "Schema must have a 'type' field" >>
        /\ (Has(schema, "type") /\ ~EqStr(Get(schema, "type"), "object"))
              => vres.msg = << "Top-level schema must be of type 'object'" >>
        /\ (Has(schema, "type") /\ EqStr(Get(schema, "type"), "object")
              /\ ~Has(schema, "properties"))
              => vres.msg = << "Schema must have a 'properties' field" >>

\* a root with neither 'type' nor 'properties' has been through both calls
C2_Witness ==
    /\ pc = "built"
    /\ ~Has(schema, "type") /\ ~Has(schema, "properties")
    /\ ~vres.ok /\ ~bres.ok

\* C3: a successful validate_schema returns the very document it was given,
\* and no call, successful or failing, changes the document.
C3_ValidateReturnsSameDocument ==
    [][ pc = "start" => (schema' = schema /\ (vres'.ok => vres'.value = schema)) ]_vars

\* a document with a property has been validated and returned
C3_Witness ==
    /\ pc = "validated" /\ vres.ok /\ vres.value = schema
    /\ IsDict(Get(schema, "properties")) /\ DOMAIN Get(schema, "properties").d # {}

\* 'required' of the object schema o names a property that is no key of o's
\* own 'properties'
DanglingRequired(o) ==
    /\ Has(o, "required") /\ IsList(Get(o, "required"))
    /\ IsDict(Get(o, "properties"))
    /\ \E i \in DOMAIN Get(o, "required").l :
          /\ IsStr(Get(o, "required").l[i])
          /\ ~Has(Get(o, "properties"), Get(o, "required").l[i].s)

\* C4: at every nesting level (the root, every nested object field, every
\* object used as array items) validate_schema rejects a schema whose
\* 'required' names a property that is no key of that level's 'properties'.
C4_RequiredCheckedAtEveryLevel ==
    (pc # "start" /\ RootIsObject(schema) /\ \E o \in Levels(schema) : DanglingRequired(o))
        => ~vres.ok

\* C5 as claimed: a root object schema with an empty 'properties' mapping is
\* rejected by validate_schema, like one without the 'properties' key.
C5_EmptyPropertiesRejected ==
    ( /\ pc # "start"
      /\ Has(schema, "type") /\ EqStr(Get(schema, "type"), "object")
      /\ (Has(schema, "properties") => Get(schema, "properties") = JDict(EmptyDict)) )
        => ~vres.ok

\* C5 as amended: validate_schema rejects a root object schema whose
\* 'properties' key is absent, with the 'properties' error; an empty
\* 'properties' mapping passes that check, and the schema is accepted exactly
\* when 'required' is absent or an empty list.
C5_AbsentPropertiesRejected ==
    (pc # "start" /\ Has(schema, "type") /\ EqStr(Get(schema, "type"), "object")) =>
        /\ ~Has(schema, "properties")
              => /\ ~vres.ok
                 /\ vres.msg = << "Schema must have a 'properties' field" >>
        /\ (Has(schema, "properties") /\ Get(schema, "properties") = JDict(EmptyDict))
              => (vres.ok <=> (~Has(schema, "required")
                                \/ Get(schema, "required") = JList(<<>>)))

\* an object root with an empty 'properties' mapping has been accepted
C5_Witness ==
    /\ pc = "validated"
    /\ Has(schema, "properties") /\ Get(schema, "properties") = JDict(EmptyDict)
    /\ vres.ok

\* C6: for every field that has a 'type', validate_schema accepts the type
\* only if it (or every element of the list) is one of string, number,
\* integer, boolean, object, array, null; any other token on the first
\* property of the root fails with 'Type not supported' naming the token and
\* the field.
C6_OnlySevenTypesAccepted ==
    pc # "start" =>
        /\ vres.ok =>
              \A f \in VisitedFields(schema) :
                  (IsDict(f.info) /\ Has(f.info, "type")) =>
                      \A t \in TypeTokensOf(f.info) : IsStr(t) /\ t.s \in SevenTypes
        /\ \A f \in VisitedFields(schema) :
              ( /\ IsDict(f.info) /\ Has(f.info, "type")
                /\ \E t \in TypeTokensOf(f.info) : ~(IsStr(t) /\ t.s \in SevenTypes) )
                  => ~vres.ok
        /\ ( /\ RootIsObject(schema) /\ IsDict(Get(schema, "properties"))
             /\ Has(Get(schema, "properties"), "a")
             /\ IsDict(Get(Get(schema, "properties"), "a"))
             /\ Has(Get(Get(schema, "properties"), "a"), "type")
             /\ \E t \in TypeTokensOf(Get(Get(schema, "properties"), "a")) :
                   ~(IsStr(t) /\ t.s \in SevenTypes) )
              => /\ Len(vres.msg) = 5
                 /\ vres.msg[1] = "Invalid type for field '"
                 /\ vres.msg[2] = "a"
                 /\ vres.msg[4] = "Type not supported: "
                 /\ vres.msg[5] \notin SevenTypes
                 /\ JStr(vres.msg[5]) \in TypeTokensOf(Get(Get(schema, "properties"), "a"))

\* C7: validate_schema rejects every field whose 'anyOf' is not a non-empty
\* list, and accepts a field that has nothing but a non-empty 'anyOf' list,
\* whatever its members are.
C7_AnyOfNonEmptyList ==
    pc # "start" =>
        /\ \A f \in VisitedFields(schema) :
              ( /\ IsDict(f.info) /\ Has(f.info, "anyOf")
                /\ ~(IsList(Get(f.info, "anyOf")) /\ Len(Get(f.info, "anyOf").l) > 0) )
                  => ~vres.ok
        /\ ( /\ RootIsObject(schema) /\ ~Has(schema, "required")
             /\ IsDict(Get(schema, "properties"))
             /\ \A f \in VisitedFields(schema) :
                   /\ IsDict(f.info) /\ DOMAIN f.info.d = { "anyOf" }
                   /\ IsList(Get(f.info, "anyOf")) /\ Len(Get(f.info, "anyOf").l) > 0 )
              => vres.ok

\* C8: validate_enum accepts an enum exactly when it is a list, is not empty,
\* and no two of its values have the same string representation; 1 and "1"
\* count as duplicates.
C8_EnumAcceptedIffDistinctStrings ==
    pc = "enum_done" =>
        /\ enum_res.ok <=>
              /\ IsList(enum_values)
              /\ Len(enum_values.l) > 0
              /\ \A i, j \in DOMAIN enum_values.l :
                    i # j => PyStr(enum_values.l[i]) # PyStr(enum_values.l[j])
        /\ (IsList(enum_values)
              /\ JInt(1) \in Range(enum_values.l) /\ JStr("1") \in Range(enum_values.l))
              => ~enum_res.ok
        /\ enum_values = JList(<< JInt(1), JFloat(10), JBool(TRUE) >>) => enum_res.ok

\* the enum [1, "1"] has been rejected as holding duplicates
C8_Witness ==
    /\ pc = "enum_done"
    /\ enum_values = JList(<< JInt(1), JStr("1") >>)
    /\ enum_res.msg = << "enum values contain duplicates" >>

\* a JSON value that is a non-negative integer
NonNegativeInteger(v) == v.k = "int" /\ v.n >= 0

\* C9: validate_array_constraints rejects minItems or maxItems that is not a
\* non-negative integer, rejects minItems > maxItems when both are present,
\* and accepts non-negative minItems <= maxItems (on a dict with no
\* unsupported key).
C9_ArrayBoundsNonNegativeIntegers ==
    pc = "array_done" =>
        /\ \A key \in { "minItems", "maxItems" } :
              (Has(constraints, key) /\ ~NonNegativeInteger(Get(constraints, key)))
                  => ~arr_res.ok
        /\ ( /\ Has(constraints, "minItems") /\ Has(constraints, "maxItems")
             /\ NonNegativeInteger(Get(constraints, "minItems"))
             /\ NonNegativeInteger(Get(constraints, "maxItems"))
             /\ Get(constraints, "minItems").n > Get(constraints, "maxItems").n )
              => ~arr_res.ok
        /\ ( /\ DOMAIN constraints.d \subseteq ArrayConstraintKeys \cup MetadataFields
             /\ \A key \in { "minItems", "maxItems" } :
                   Has(constraints, key) => NonNegativeInteger(Get(constraints, key))
             /\ (Has(constraints, "minItems") /\ Has(constraints, "maxItems"))
                   => Get(constraints, "minItems").n <= Get(constraints, "maxItems").n )
              => arr_res.ok

\* a field of type number or integer with a key outside the five numeric
\* constraints and the five metadata keys
NumericWithOtherKey(info) ==
    /\ IsDict(info) /\ Has(info, "type")
    /\ (EqStr(Get(info, "type"), "number") \/ EqStr(Get(info, "type"), "integer"))
    /\ ~(DOMAIN info.d \subseteq NumberConstraintKeys \cup MetadataFields)

ConstraintNotSupported(msg) ==
    /\ Len(msg) >= 5
    /\ msg[Len(msg) - 4] = "Invalid constraints for field '"
    /\ msg[Len(msg) - 1] = "Number constraint not supported: "

\* C10: a field of type number or integer that validate_schema visits and
\* that carries a key outside the five numeric constraints and the five
\* metadata keys makes validate_schema fail; the field itself fails with
\* 'constraint not supported' naming one of those keys (enum, anyOf and
\* format among them) and never with an enum error, and as the first
\* property of the root that is the error validate_schema raises.
C10_NumericFieldRejectsOtherKeys ==
    pc # "start" =>
        \A f \in VisitedFields(schema) :
            NumericWithOtherKey(f.info) =>
                /\ ~vres.ok
                /\ LET r == ValidateField(f.name, f.info)
                   IN  /\ ~r.ok
                       /\ r.msg[1] = "Invalid constraints for field '"
                       /\ r.msg[2] = f.name
                       /\ r.msg[4] = "Number constraint not supported: "
                       /\ r.msg[5] \in DOMAIN f.info.d
                                     \ (NumberConstraintKeys \cup MetadataFields)
                /\ (Has(Get(schema, "properties"), "a")
                      /\ f.info = Get(Get(schema, "properties"), "a"))
                      => /\ ConstraintNotSupported(vres.msg)
                         /\ vres.msg[2] = "a"

\* an integer field with an enum that has duplicates was rejected for the
\* key, not for the duplicates
C10_Witness ==
    /\ pc = "validated"
    /\ RootIsObject(schema) /\ IsDict(Get(schema, "properties"))
    /\ Has(Get(schema, "properties"), "a")
    /\ Get(Get(schema, "properties"), "a")
          = JDict(Frag("type", JStr("integer")) @@ Frag("enum", StrList(<< "p", "p" >>)))
    /\ vres.msg = << "Invalid constraints for field '", "a", "': ",
                     "Number constraint not supported: ", "enum" >>

\* the message carries the field name as one of its parts
NamesField(msg, name) == \E i \in DOMAIN msg : msg[i] = name

\* the root checks pass and the error is not the one for the root 'required':
\* the violation lies inside a field
FieldLevelError(s, r) ==
    /\ RootIsObject(s) /\ IsDict(Get(s, "properties"))
    /\ ~r.ok
    /\ r.msg[1] # "Invalid required fields: "

\* C11: every error validate_schema raises for a violation inside a field
\* names a field, and an error that names the nested field x also names the
\* root field (a or b) that encloses it.
C11_ErrorsNameFieldPath ==
    (pc # "start" /\ FieldLevelError(schema, vres)) =>
        /\ \E name \in { "a", "b", "x" } : NamesField(vres.msg, name)
        /\ NamesField(vres.msg, "x")
              => (NamesField(vres.msg, "a") \/ NamesField(vres.msg, "b"))

\* the object schemas build_model compiles, each with the model made from it:
\* the root, the object fields with properties, the objects used as array
\* items (a model reached through anyOf has no single schema and is left out)
RECURSIVE BuiltLevels(_, _)
RECURSIVE BuiltBelow(_, _)
BuiltBelow(f, t) ==
    IF ~IsDict(f) \/ Has(f, "anyOf")
    THEN {}
    ELSE CASE t.k = "model"   -> BuiltLevels(f, t)
           [] t.k = "list_of" -> BuiltBelow(Get(f, "items"), t.item)
           [] t.k = "union"   -> IF t.args[1].k \in { "model", "list_of" }
                                 THEN BuiltBelow(f, t.args[1])
                                 ELSE {}
           [] OTHER           -> {}

BuiltLevels(o, m) ==
    { [schema |-> o, model |-> m] }
    \cup UNION { BuiltBelow(Get(Get(o, "properties"), n), m.fields[n].annotation) :
                   n \in DOMAIN m.fields }

\* the (schema, model) levels of the finished build, none before it succeeded
Built ==
    IF pc = "built" /\ bres.ok THEN BuiltLevels(schema, bres.value) ELSE {}

\* 'required' of the object schema o is absent or a list
RequiredWellFormed(o) == Has(o, "required") => IsList(Get(o, "required"))

\* the field named n is listed in 'required' of the object schema o
ListedRequired(o, n) ==
    Has(o, "required") /\ IsList(Get(o, "required")) /\ JStr(n) \in Range(Get(o, "required").l)

\* the type admits null
AllowsNull(t) == \E i \in DOMAIN UnionArgs(t) : UnionArgs(t)[i] = TNone

\* C12: every field not listed in the enclosing object's 'required' is built
\* as a field that is not required, whose type allows null, and whose default
\* is the schema's 'default' when there is one and null otherwise.
C12_OptionalFieldsAllowNull ==
    \A lv \in Built :
        RequiredWellFormed(lv.schema) =>
            \A n \in DOMAIN lv.model.fields :
                ~ListedRequired(lv.schema, n) =>
                    LET info  == Get(Get(lv.schema, "properties"), n)
                        entry == lv.model.fields[n]
                    IN  /\ ~entry.required
                        /\ AllowsNull(entry.annotation)
                        /\ entry.default = GetOr(info, "default", JNull)

\* C13: every field listed in 'required' whose schema has a 'default' is built
\* as a field that carries that default.
C13_RequiredFieldKeepsDefault ==
    \A lv \in Built :
        \A n \in DOMAIN lv.model.fields :
            LET info == Get(Get(lv.schema, "properties"), n)
            IN  (ListedRequired(lv.schema, n) /\ Has(info, "default"))
                    => lv.model.fields[n].default = Get(info, "default")

\* C14: every field listed in 'required' whose schema has no 'default' is
\* built as a required field with the no-default marker, which is not null,
\* and with its resolved type, not widened with null.
C14_RequiredFieldHasNoDefault ==
    \A lv \in Built :
        \A n \in DOMAIN lv.model.fields :
            LET info  == Get(Get(lv.schema, "properties"), n)
                entry == lv.model.fields[n]
            IN  (ListedRequired(lv.schema, n) /\ ~Has(info, "default"))
                    => /\ entry.required
                       /\ entry.default = Ellipsis
                       /\ entry.default # JNull
                       /\ _get_field_type(info).ok
                       /\ entry.annotation = _get_field_type(info).value
                       /\ (info = JDict(Frag("type", JStr("string")))
                             => entry.annotation = TStr /\ ~AllowsNull(entry.annotation))

\* a nested model with a required field of type string and no default, and a
\* root whose required field a is that model
C14_Witness ==
    \E lv \in Built :
        /\ lv.schema # schema
        /\ ListedRequired(lv.schema, "x")
        /\ Get(Get(lv.schema, "properties"), "x") = JDict(Frag("type", JStr("string")))
        /\ lv.model.fields["x"] =
              [annotation |-> TStr, required |-> TRUE, default |-> Ellipsis,
               description |-> JNull]
        /\ ListedRequired(schema, "a")

\* the dict d without the keys outside keys
Restrict(f, keys) == JDict([key \in DOMAIN f.d \cap keys |-> f.d[key]])

\* the keys read by the first resolution rule that applies to the field, in
\* the order anyOf, enum, type list, format, array, object, primitive
RuleKeys(f) ==
    IF Has(f, "anyOf") THEN { "anyOf" }
    ELSE IF Has(f, "enum") THEN { "enum" }
    ELSE IF Has(f, "type") /\ IsList(Get(f, "type")) THEN { "type" }
    ELSE IF Has(f, "format") /\ is_supported_format(Get(f, "format"))
    THEN { "type", "format" }
    ELSE IF Has(f, "type") /\ EqStr(Get(f, "type"), "array") THEN { "type", "items" }
    ELSE IF Has(f, "type") /\ EqStr(Get(f, "type"), "object")
    THEN { "type", "properties", "required", "title" }
    ELSE { "type" }

\* the fields of the root's properties that are dicts
RootFields(s) ==
    IF IsDict(s) /\ Has(s, "properties") /\ IsDict(Get(s, "properties"))
    THEN { f \in Range([n \in DOMAIN Get(s, "properties").d |-> Get(Get(s, "properties"), n)]) :
             IsDict(f) }
    ELSE {}

\* C15: a field is resolved by the first rule that applies, in the order
\* anyOf, enum, type list, format, array, object, primitive: the keys of the
\* later rules do not change the outcome, and the type a required field gets
\* in the built model is the one its first rule alone gives.
C15_FirstRuleResolvesField ==
    pc = "built" =>
        /\ \A f \in RootFields(schema) :
              /\ _get_field_type(f) = _get_field_type(Restrict(f, RuleKeys(f)))
              /\ Has(f, "anyOf") =>
                    _get_field_type(f) = _handle_any_of(Get(f, "anyOf"))
              /\ (Has(f, "enum") /\ ~Has(f, "anyOf")) =>
                    _get_field_type(f) = _handle_enum(Restrict(f, { "enum" }))
        /\ \A lv \in Built :
              \A n \in DOMAIN lv.model.fields :
                  LET info == Get(Get(lv.schema, "properties"), n)
                  IN  (ListedRequired(lv.schema, n) /\ IsDict(info)) =>
                          lv.model.fields[n].annotation
                              = _get_field_type(Restrict(info, RuleKeys(info))).value

\* a required field with type, enum and anyOf was built as the union of the
\* anyOf members
C15_Witness ==
    /\ pc = "built" /\ bres.ok
    /\ ListedRequired(schema, "a")
    /\ RootIsObject(schema) /\ IsDict(Get(schema, "properties"))
    /\ Has(Get(schema, "properties"), "a")
    /\ { "type", "enum", "anyOf" } \subseteq DOMAIN Get(Get(schema, "properties"), "a").d
    /\ bres.value.fields["a"].annotation = PyUnion(TStr, TPrim("int"))

\* the alternatives of each type of a sequence, one after the other
RECURSIVE Alternatives(_)
Alternatives(types) ==
    IF types = <<>> THEN <<>> ELSE UnionArgs(Head(types)) \o Alternatives(Tail(types))

\* res lists every element of flat once, in the order of first occurrence
FirstOccurrences(res, flat) ==
    /\ Range(res) = Range(flat)
    /\ \A i, j \in DOMAIN res : i # j => res[i] # res[j]
    /\ \A i, j \in DOMAIN res :
          i < j => FirstIndex(flat, LAMBDA t : t = res[i])
                     < FirstIndex(flat, LAMBDA t : t = res[j])

\* the members of an anyOf list are dicts that resolve without raising
MembersResolve(members) ==
    \A i \in DOMAIN members : IsDict(members[i]) /\ _get_field_type(members[i]).ok

\* C16: a field with an anyOf list resolves to the string type when the list
\* is empty, to exactly its member's type when there is one member, and
\* otherwise to the union whose alternatives are those of the members'
\* resolved types in member order; a required field gets that type in the
\* built model.
C16_AnyOfIsUnionOfMembers ==
    pc = "built" =>
        /\ \A f \in RootFields(schema) :
              (Has(f, "anyOf") /\ IsList(Get(f, "anyOf"))) =>
                  LET members == Get(f, "anyOf").l
                      r       == _get_field_type(f)
                  IN  /\ members = <<>> => r = Ok(TStr)
                      /\ (Len(members) = 1 /\ IsDict(members[1]))
                            => r = _get_field_type(members[1])
                      /\ (Len(members) > 1 /\ MembersResolve(members))
                            => /\ r.ok
                               /\ FirstOccurrences(
                                      UnionArgs(r.value),
                                      Alternatives([i \in DOMAIN members |->
                                          _get_field_type(members[i]).value]))
        /\ ( /\ bres.ok /\ ListedRequired(schema, "a")
             /\ RootIsObject(schema) /\ IsDict(Get(schema, "properties"))
             /\ Has(Get(schema, "properties"), "a")
             /\ IsDict(Get(Get(schema, "properties"), "a"))
             /\ Has(Get(Get(schema, "properties"), "a"), "anyOf") )
              => bres.value.fields["a"].annotation
                    = _handle_any_of(Get(Get(Get(schema, "properties"), "a"), "anyOf")).value
        /\ _handle_any_of(JList(<< JDict(Frag("type", JStr("string"))),
                                   JDict(Frag("type", JStr("integer"))) >>))
              = Ok([k |-> "union", args |-> << TStr, TPrim("int") >>])

\* a required field whose anyOf has the members integer, string-or-null,
\* integer was built as int | str | None
C16_Witness ==
    /\ pc = "built" /\ bres.ok
    /\ ListedRequired(schema, "a")
    /\ RootIsObject(schema) /\ IsDict(Get(schema, "properties"))
    /\ Has(Get(schema, "properties"), "a")
    /\ IsDict(Get(Get(schema, "properties"), "a"))
    /\ Has(Get(Get(schema, "properties"), "a"), "anyOf")
    /\ IsList(Get(Get(Get(schema, "properties"), "a"), "anyOf"))
    /\ Len(Get(Get(Get(schema, "properties"), "a"), "anyOf").l) = 3
    /\ bres.value.fields["a"].annotation
          = [k |-> "union", args |-> << TPrim("int"), TStr, TNone >>]

\* the field is resolved by its 'type' alone: no anyOf, no enum, no supported
\* format
ResolvedByType(f) ==
    /\ IsDict(f) /\ Has(f, "type")
    /\ ~Has(f, "anyOf") /\ ~Has(f, "enum")
    /\ ~(Has(f, "format") /\ is_supported_format(Get(f, "format")))

OutsideTable(t) == ~(IsStr(t) /\ t.s \in SevenTypes)

\* C17: the builder resolves every type token outside the seven-entry
\* primitive table to the string type without raising, as a single 'type'
\* and as an element of a type list, and a schema whose only field has such
\* a type is built.
C17_UnknownTypeFallsBackToStr ==
    (pc = "built" /\ RootIsObject(schema)) =>
        /\ \A f \in RootFields(schema) :
              ResolvedByType(f) =>
                  /\ (IsStr(Get(f, "type")) /\ OutsideTable(Get(f, "type")))
                        => _get_field_type(f) = Ok(TStr)
                  /\ (IsList(Get(f, "type")) /\ Get(f, "type").l # <<>>
                        /\ \E t \in Range(Get(f, "type").l) : OutsideTable(t))
                        => /\ _get_field_type(f).ok
                           /\ TStr \in Range(UnionArgs(_get_field_type(f).value))
        /\ ( /\ RootIsObject(schema) /\ IsDict(Get(schema, "properties"))
             /\ RequiredWellFormed(schema)
             /\ DOMAIN Get(schema, "properties").d = { "a" }
             /\ ResolvedByType(Get(Get(schema, "properties"), "a"))
             /\ IsStr(Get(Get(Get(schema, "properties"), "a"), "type"))
             /\ OutsideTable(Get(Get(Get(schema, "properties"), "a"), "type")) )
              => bres.ok

\* a field resolved by 'type' and 'format': no anyOf, no enum, and a format
\* from the supported list
HasSupportedFormat(f) ==
    /\ IsDict(f) /\ Has(f, "type")
    /\ ~Has(f, "anyOf") /\ ~Has(f, "enum")
    /\ Has(f, "format") /\ is_supported_format(Get(f, "format"))

\* the native type of a supported format
FormatType(format) ==
    CASE format = "date-time" -> TPrim("datetime")
      [] format = "date"      -> TPrim("date")
      [] format = "time"      -> TPrim("time")
      [] format \in { "duration", "email", "hostname", "ipv4", "ipv6", "uuid" } -> TStr

\* C18: a supported format decides the resolved type of a field of type
\* "string" (date-time, date, time give timestamp, calendar date, time of
\* day; the six others give string), and on a field of any other type the
\* field resolves as it does without the format key.
C18_FormatOnlyOnStrings ==
    (pc = "built" /\ RootIsObject(schema)) =>
        \A f \in RootFields(schema) :
            HasSupportedFormat(f) =>
                /\ EqStr(Get(f, "type"), "string")
                      => _get_field_type(f) = Ok(FormatType(Get(f, "format").s))
                /\ ~EqStr(Get(f, "type"), "string")
                      => _get_field_type(f)
                            = _get_field_type(Restrict(f, DOMAIN f.d \ { "format" }))

\* the type is a model with the given name, one field per property of the
\* object schema o, each required exactly when o's own 'required' lists it
NestedModelOf(t, o) ==
    /\ t.k = "model"
    /\ t.name = GetOr(o, "title", JStr("NestedModel"))
    /\ DOMAIN t.fields = DOMAIN Get(o, "properties").d
    /\ RequiredWellFormed(o) =>
          \A n \in DOMAIN t.fields : t.fields[n].required <=> ListedRequired(o, n)

\* C19: an array field without 'items' resolves to the untyped list and with
\* 'items' to the list of the resolved item type; an object field without
\* 'properties' resolves to the untyped mapping and with 'properties' to a
\* nested model named by its 'title', else "NestedModel", whose fields are
\* required as its own 'required' says; the same holds for the models nested
\* in the built model.
C19_ContainersCompiledRecursively ==
    (pc = "built" /\ RootIsObject(schema)) =>
        /\ \A f \in RootFields(schema) :
              ResolvedByType(f) =>
                  LET r == _get_field_type(f)
                  IN  /\ (EqStr(Get(f, "type"), "array") /\ ~Has(f, "items"))
                            => r = Ok(TPrim("list"))
                      /\ (EqStr(Get(f, "type"), "array") /\ Has(f, "items"))
                            => LET item == _get_field_type(Get(f, "items"))
                               IN  IF item.ok THEN r = Ok(TListOf(item.value)) ELSE r = item
                      /\ (EqStr(Get(f, "type"), "object") /\ ~Has(f, "properties"))
                            => r = Ok(TPrim("dict"))
                      /\ ( /\ EqStr(Get(f, "type"), "object") /\ Has(f, "properties")
                           /\ IsDict(Get(f, "properties")) /\ r.ok )
                            => NestedModelOf(r.value, f)
        /\ \A lv \in Built : lv.schema # schema => NestedModelOf(lv.model, lv.schema)

\* the built model has a required field a that is a nested model named by
\* its title, with its own required field x, next to an optional string b
C19_Witness ==
    /\ pc = "built" /\ bres.ok
    /\ RootIsObject(schema) /\ IsDict(Get(schema, "properties"))
    /\ Has(Get(schema, "properties"), "a") /\ ListedRequired(schema, "a")
    /\ LET t == bres.value.fields["a"].annotation
       IN  /\ t.k = "model"
           /\ t.name = JStr("T")
           /\ t.fields["x"].required
           /\ t.fields["x"].annotation = TStr
    /\ Has(Get(schema, "properties"), "b")
    /\ LET u == bres.value.fields["b"].annotation
       IN  u = TOptional(TStr)

\* the response parses and passes validation
Accepted(response) ==
    /\ response.kind = "json"
    /\ validate_schema(response.doc).ok

\* the attempt on this response fails with a ValueError: the content is
\* empty or no JSON, or the document fails validation with a ValueError
FailsWithValueError(response) ==
    \/ response.kind \in { "empty", "not_json" }
    \/ /\ response.kind = "json"
       /\ ~validate_schema(response.doc).ok
       /\ validate_schema(response.doc).exc = "ValueError"

\* the text of the error of the attempt on this response
AttemptError(response) ==
    CASE response.kind = "empty"    -> "Response from OpenAI API is empty"
      [] response.kind = "not_json" ->
            "Response from OpenAI API is not valid JSON: Expecting value: line 1 column 1 (char 0)"
      [] response.kind = "json"     -> Cat(validate_schema(response.doc).msg)

\* extract_from_prompt has returned or raised
Generated == pc \in { "generated", "extracted" }

\* C22: with max_retries = n >= 1, extract_from_prompt makes at most n API
\* calls, makes no call after a response that parses and passes validation
\* and returns that response (one call when the first response is valid), and
\* when all n attempts failed with a ValueError it raises a ValueError whose
\* message ends with the error of the n-th attempt.
C22_RetryCeiling ==
    gen.max_retries >= 1 =>
        /\ Len(api_calls) <= gen.max_retries
        /\ \A i \in DOMAIN api_calls :
              Accepted(api_calls[i].response) =>
                  /\ i = Len(api_calls)
                  /\ Generated
                  /\ gen_res = Ok(api_calls[i].response.doc)
        /\ ( /\ Generated
             /\ Len(api_calls) = gen.max_retries
             /\ \A i \in DOMAIN api_calls : FailsWithValueError(api_calls[i].response) )
              => /\ ~gen_res.ok
                 /\ gen_res.exc = "ValueError"
                 /\ gen_res.msg[Len(gen_res.msg)]
                       = AttemptError(api_calls[gen.max_retries].response)
        /\ (Generated /\ gen_res.ok) => Len(api_calls) >= 1

\* three attempts failed with three different errors and the ValueError
\* raised carries the third
C22_Witness ==
    /\ Generated
    /\ gen.max_retries = 3 /\ Len(api_calls) = 3
    /\ api_calls[1].response.kind = "not_json"
    /\ api_calls[2].response = [kind |-> "json", doc |-> JDict(Frag("type", JStr("string")))]
    /\ api_calls[3].response = [kind |-> "json", doc |-> JDict(EmptyDict)]
    /\ gen_res = Raise("ValueError",
           << "Failed to generate valid schema after ", "3", " attempts. Last error: ",
              "Schema must have a 'type' field" >>)

\* the attempt on this response failed validation: the content parsed and
\* validate_schema raised a ValueError
FailsValidation(response) ==
    /\ response.kind = "json"
    /\ ~validate_schema(response.doc).ok
    /\ validate_schema(response.doc).exc = "ValueError"

\* the messages have an assistant turn holding the document
HasAssistantTurn(messages, doc) ==
    \E m \in DOMAIN messages :
        messages[m] = [role |-> "assistant", content |-> json_dumps(doc)]

\* the last message is a user turn holding the error text between the fixed
\* parts of the retry prompt
EndsWithError(messages, error) ==
    /\ messages # <<>>
    /\ messages[Len(messages)]
          = [role |-> "user", content |-> RetryHead \o error \o RetryTail]

\* C23: whenever an attempt failed validation and another attempt is made,
\* the messages of that next attempt hold the schema of the failed attempt
\* as the assistant turn and the validation error text in the final user
\* turn, whatever the schema was, the empty object {} included.
C23_RetryCarriesSchemaAndError ==
    \A i \in DOMAIN api_calls :
        (i > 1 /\ FailsValidation(api_calls[i - 1].response)) =>
            /\ HasAssistantTurn(api_calls[i].messages, api_calls[i - 1].response.doc)
            /\ EndsWithError(api_calls[i].messages,
                             Cat(validate_schema(api_calls[i - 1].response.doc).msg))

\* C24: when the schema the collaborator returns fails validation on every
\* attempt, extract_structure raises SchemaValidationError.
C24_InvalidSchemaRaisesSchemaValidationError ==
    ( /\ pc = "extracted"
      /\ gen.max_retries >= 1
      /\ Len(api_calls) = gen.max_retries
      /\ \A i \in DOMAIN api_calls : FailsValidation(api_calls[i].response) )
        => (~ext_res.ok /\ ext_res.exc = "SchemaValidationError")

\* C25: load_from_json fails with FileNotFoundError when the file is
\* missing, with a JSON decoding error when the content is no JSON, with
\* SchemaValidationError for every JSON document validate_schema does not
\* accept, and with ModelBuildError when validation passes and the build
\* fails; it returns a model exactly when all steps succeed.
C25_LoadErrorsAreDistinct ==
    pc = "loaded" =>
        /\ file.kind = "missing" => (~load_res.ok /\ load_res.exc = "FileNotFoundError")
        /\ file.kind = "not_json" => (~load_res.ok /\ load_res.exc = "JSONDecodeError")
        /\ (file.kind = "json" /\ ~validate_schema(file.doc).ok)
              => (~load_res.ok /\ load_res.exc = "SchemaValidationError")
        /\ (file.kind = "json" /\ validate_schema(file.doc).ok
              /\ ~build_model(file.doc, JNull).ok)
              => (~load_res.ok /\ load_res.exc = "ModelBuildError")
        /\ load_res.ok <=>
              /\ file.kind = "json"
              /\ validate_schema(file.doc).ok
              /\ build_model(file.doc, JNull).ok

\* the largest of a finite set of naturals, 0 for the empty set
MaxOf(S) == IF S = {} THEN 0 ELSE CHOOSE m \in S : \A n \in S : n <= m

\* how many object / array levels lie one inside the other in a field
RECURSIVE NestingDepth(_)
NestingDepth(f) ==
    IF ~IsDict(f) THEN 0
    ELSE IF Has(f, "properties") /\ IsDict(Get(f, "properties"))
    THEN 1 + MaxOf({ NestingDepth(Get(Get(f, "properties"), n)) :
                       n \in DOMAIN Get(f, "properties").d })
    ELSE IF Has(f, "items") THEN 1 + NestingDepth(Get(f, "items"))
    ELSE 0

\* C26: on a schema whose object / array nesting exceeds the configured limit
\* (DepthLimit here, 50 by default), validate_schema and build_model stop with
\* an error ('schema too deeply nested') instead of recursing as deep as the
\* schema goes.
C26_DepthGuard ==
    (pc = "built" /\ NestingDepth(schema) > DepthLimit) => (~vres.ok /\ ~bres.ok)

\* C27: in every retry, the schema fed back as the assistant turn is the
\* response of the attempt whose error is fed back in the final user turn,
\* that is of the attempt just before; no retry pairs the error of an empty
\* or non-JSON response with the schema of an earlier attempt.
C27_ErrorBelongsToSchemaFedBack ==
    \A i \in DOMAIN api_calls :
        i > 1 =>
            /\ EndsWithError(api_calls[i].messages, AttemptError(api_calls[i - 1].response))
            /\ \A m \in DOMAIN api_calls[i].messages :
                  api_calls[i].messages[m].role = "assistant" =>
                      /\ api_calls[i - 1].response.kind = "json"
                      /\ api_calls[i].messages[m].content
                            = json_dumps(api_calls[i - 1].response.doc)

\* C28: every schema that extract_from_prompt returns is the response of the
\* last API call it made, and that response parsed and passed validate_schema;
\* no response that failed validation is returned, whatever the responses.
C28_ReturnedSchemaPassedValidation ==
    (Generated /\ gen_res.ok) =>
        /\ api_calls # <<>>
        /\ api_calls[Len(api_calls)].response.kind = "json"
        /\ gen_res.value = api_calls[Len(api_calls)].response.doc
        /\ validate_schema(gen_res.value).ok
        /\ \A i \in 1..(Len(api_calls) - 1) : ~Accepted(api_calls[i].response)

\* a schema is returned on the third call, after one response that failed
\* validation and one that was no JSON
C28_Witness ==
    /\ pc = "generated"
    /\ gen_res.ok
    /\ Len(api_calls) = 3
    /\ FailsValidation(api_calls[1].response)
    /\ api_calls[2].response.kind = "not_json"
    /\ gen_res.value = api_calls[3].response.doc

C30_OnlyValueErrorIsRetried ==
    /\ \A i \in DOMAIN api_calls :
          /\ i < Len(api_calls) => FailsWithValueError(api_calls[i].response)
          /\ api_calls[i].response.kind = "api_error" =>
                /\ i = Len(api_calls)
                /\ Generated
                /\ gen_res = _call_api(api_calls[i].response)
                /\ gen_res.exc = "APIError"
    /\ pc = "loop" => Len(api_calls) = gen.attempt
    /\ Generated => Len(api_calls) \in { gen.attempt, gen.attempt + 1 }

\* the first response was empty, the second API call raised, and the API
\* exception left extract_from_prompt with one attempt still unused
C30_Witness ==
    /\ pc = "generated"
    /\ gen.max_retries = 3
    /\ Len(api_calls) = 2
    /\ api_calls[1].response.kind = "empty"
    /\ api_calls[2].response.kind = "api_error"
    /\ gen_res = Raise("APIError", << "API Error" >>)

====
